---------------------------- MODULE Spec2Model ----------------------------
(***************************************************************************)
(* A model of newton_generator: the symbolic function algebra (func.rs),   *)
(* the palette builder (palette.rs) and the root registry, the Newton      *)
(* iteration and the render kernel (main.rs).                              *)
(*                                                                         *)
(* Each part of the program has its own specification (SpecAlg, SpecParse, *)
(* SpecPalette, SpecRoots, SpecNewton, SpecRender) over its own variables; *)
(* the variables of the other parts stay at their initial values.          *)
(***************************************************************************)
EXTENDS Integers, Sequences, FiniteSets, TLC

VARIABLES
    e, call, result,              \* SpecAlg: a tree, the call made on it, what it returned
    stack, deriv, ntok,           \* SpecParse: eval_func's operands, diff of the parsed tree,
                                  \*   tokens read
    toks, acc, out,               \* SpecPalette: tokens read, the Pratt accumulator, the result
    rows, rowOut, registry,       \* SpecRoots: endpoints per row, per-row uniq_vec, the registry
    sortAlgo,                     \* SpecRoots: which insertion sort slice::sort_by runs
    z, d, fsmall, firstSmall, found, npc,   \* SpecNewton: find_root_func's recursion
    height, width, colorize, pixres, rowBuf, doneOrder, image, rpc,  \* SpecRender: newton()
    coord, cres, vwidth, seed,    \* SpecView: the --coord string, validate_coord's verdict,
                                  \*   the height and width of the image, the seed of a pixel
    gtree, gcode,                 \* SpecGen: a tree and the C text gen_inner makes of it
    parg, ppal, pin, pout         \* SpecPixel: the palette argument, the palette built from it,
                                  \*   find_newton's inputs and the colour it returns

algVars == <<e, call, result>>
parseVars == <<stack, deriv, ntok>>
palVars == <<toks, acc, out>>
rootVars == <<rows, rowOut, registry, sortAlgo>>
newtonVars == <<z, d, fsmall, firstSmall, found, npc>>
renderVars == <<height, width, colorize, pixres, rowBuf, doneOrder, image, rpc>>
pixelVars == <<parg, ppal, pin, pout>>
viewVars == <<coord, cres, vwidth, seed>>
genVars == <<gtree, gcode>>
vars ==
    <<algVars, parseVars, palVars, rootVars, newtonVars, renderVars, pixelVars, viewVars,
      genVars>>

(***************************************************************************)
(* f64 values.  A finite value is an exact rational n/d in lowest terms;   *)
(* NaN and the two infinities are values of their own; "irr" stands for a  *)
(* finite nonzero value that is no small rational (sqrt(2), e, sin(1)):    *)
(* arithmetic keeps it opaque.  Values are compared as == compares them,   *)
(* except that NaN is one value.                                           *)
(***************************************************************************)
Abs(x) == IF x < 0 THEN -x ELSE x
Min(x, y) == IF x < y THEN x ELSE y

RECURSIVE Gcd(_, _)
Gcd(a, b) == IF b = 0 THEN a ELSE Gcd(b, a % b)

Fin(n, dd) ==
    LET s == IF dd < 0 THEN -1 ELSE 1
        g == Gcd(Abs(n), Abs(dd))
    IN  [k |-> "fin", n |-> (s * n) \div g, d |-> (s * dd) \div g]

NaN == [k |-> "nan", n |-> 0, d |-> 1]
PInf == [k |-> "pinf", n |-> 0, d |-> 1]
NInf == [k |-> "ninf", n |-> 0, d |-> 1]
Irr == [k |-> "irr", n |-> 0, d |-> 1]
Zero == Fin(0, 1)
One == Fin(1, 1)
Two == Fin(2, 1)
Half == Fin(1, 2)

IsFin(a) == a.k = "fin"
IsInf(a) == a.k \in {"pinf", "ninf"}
IsZero(a) == a.k = "fin" /\ a.n = 0
\* the sign of a value that is not NaN: -1, 0 or 1 (an opaque value counts as positive)
Sign(a) ==
    CASE a.k = "fin" -> (IF a.n > 0 THEN 1 ELSE IF a.n < 0 THEN -1 ELSE 0)
      [] a.k = "ninf" -> -1
      [] OTHER -> 1
InfOfSign(s) == IF s < 0 THEN NInf ELSE PInf
NNeg(a) ==
    CASE a.k = "fin" -> Fin(-a.n, a.d)
      [] a.k = "pinf" -> NInf
      [] a.k = "ninf" -> PInf
      [] OTHER -> a

\* a + b in f64
NAdd(a, b) ==
    CASE a.k = "nan" \/ b.k = "nan" -> NaN
      [] IsInf(a) /\ IsInf(b) -> (IF a.k = b.k THEN a ELSE NaN)
      [] IsInf(a) -> a
      [] IsInf(b) -> b
      [] a.k = "irr" -> (IF IsZero(b) THEN a ELSE Irr)
      [] b.k = "irr" -> (IF IsZero(a) THEN b ELSE Irr)
      [] OTHER -> Fin(a.n * b.d + b.n * a.d, a.d * b.d)

NSub(a, b) == NAdd(a, NNeg(b))

\* a * b in f64
NMul(a, b) ==
    CASE a.k = "nan" \/ b.k = "nan" -> NaN
      [] IsInf(a) \/ IsInf(b) ->
            (IF IsZero(a) \/ IsZero(b) THEN NaN ELSE InfOfSign(Sign(a) * Sign(b)))
      [] IsZero(a) \/ IsZero(b) -> Zero
      [] a.k = "irr" -> (IF b = One THEN a ELSE Irr)
      [] b.k = "irr" -> (IF a = One THEN b ELSE Irr)
      [] OTHER -> Fin(a.n * b.n, a.d * b.d)

\* a / b in f64
NDiv(a, b) ==
    CASE a.k = "nan" \/ b.k = "nan" -> NaN
      [] IsInf(a) -> (IF IsInf(b) THEN NaN
                      ELSE InfOfSign(Sign(a) * (IF IsZero(b) THEN 1 ELSE Sign(b))))
      [] IsInf(b) -> Zero
      [] IsZero(b) -> (IF IsZero(a) THEN NaN ELSE InfOfSign(Sign(a)))
      [] IsZero(a) -> Zero
      [] a.k = "irr" -> (IF b = One THEN a ELSE Irr)
      [] b.k = "irr" -> Irr
      [] OTHER -> Fin(a.n * b.d, a.d * b.n)

\* the integer square root of a perfect square, -1 for any other number
ISqrt(n) == IF \E r \in 0..n : r * r = n THEN CHOOSE r \in 0..n : r * r = n ELSE -1

\* f64::sqrt
NSqrt(a) ==
    CASE a.k = "nan" \/ a.k = "ninf" -> NaN
      [] a.k = "pinf" -> PInf
      [] a.k = "irr" -> Irr
      [] a.n < 0 -> NaN
      [] ISqrt(a.n) >= 0 /\ ISqrt(a.d) >= 0 -> Fin(ISqrt(a.n), ISqrt(a.d))
      [] OTHER -> Irr

\* f64::exp
NExp(a) ==
    CASE a.k = "nan" -> NaN
      [] a.k = "pinf" -> PInf
      [] a.k = "ninf" -> Zero
      [] IsZero(a) -> One
      [] OTHER -> Irr

\* f64::ln
NLn(a) ==
    CASE a.k = "nan" \/ a.k = "ninf" -> NaN
      [] a.k = "pinf" -> PInf
      [] a.k = "irr" -> Irr
      [] a.n < 0 -> NaN
      [] a.n = 0 -> NInf
      [] a = One -> Zero
      [] OTHER -> Irr

\* f64::sin and f64::tan: exact at 0 only
NSin(a) ==
    CASE a.k = "nan" \/ IsInf(a) -> NaN
      [] IsZero(a) -> Zero
      [] OTHER -> Irr

\* f64::cos
NCos(a) ==
    CASE a.k = "nan" \/ IsInf(a) -> NaN
      [] IsZero(a) -> One
      [] OTHER -> Irr

NTan(a) == NSin(a)

\* a^n for a finite rational a and an integer n >= 0
RECURSIVE IPow(_, _)
IPow(a, n) == IF n = 0 THEN One ELSE NMul(a, IPow(a, n - 1))

\* f64::powf(a, x)
NPowf(a, x) ==
    CASE IsZero(x) -> One
      [] a = One -> One
      [] a.k = "nan" \/ x.k = "nan" -> NaN
      [] x = One -> a
      [] IsFin(x) /\ x.d = 1 /\ IsFin(a) ->
            (IF x.n > 0 THEN IPow(a, x.n) ELSE NDiv(One, IPow(a, -x.n)))
      [] x = Half -> NSqrt(a)
      [] IsFin(a) /\ a.n < 0 -> NaN
      [] IsZero(a) -> (IF Sign(x) > 0 THEN Zero ELSE PInf)
      [] a.k = "pinf" -> (IF Sign(x) > 0 THEN PInf ELSE Zero)
      [] a.k = "ninf" -> (IF Sign(x) > 0 THEN PInf ELSE Zero)
      [] OTHER -> Irr

(***************************************************************************)
(* Expression trees: enum Func (func.rs).  A node is a tuple whose first   *)
(* element is the variant's name.                                          *)
(***************************************************************************)
Arg == <<"Arg">>
Im == <<"Im">>
Num(v) == <<"Num", v>>
Add(a, b) == <<"Add", a, b>>
Sub(a, b) == <<"Sub", a, b>>
Mul(a, b) == <<"Mul", a, b>>
Div(a, b) == <<"Div", a, b>>
PowC(a, x) == <<"PowC", a, x>>
PowI(a, n) == <<"PowI", a, n>>
Sqrt(a) == <<"Sqrt", a>>
Exp(a) == <<"Exp", a>>
Ln(a) == <<"Ln", a>>
Sin(a) == <<"Sin", a>>
Cos(a) == <<"Cos", a>>
Tan(a) == <<"Tan", a>>

Tag(t) == t[1]
IsNum(t) == Tag(t) = "Num"
Val(t) == t[2]
BinaryTags == {"Add", "Sub", "Mul", "Div"}
ElemTags == {"Sqrt", "Exp", "Ln", "Sin", "Cos", "Tan"}
I32Max == 2147483647

\* (n - 1.0).abs() < f64::EPSILON: of the values of the model only 1 is that close to 1
NearOne(v) == v = One
\* (n - 0.5).abs() < f64::EPSILON
NearHalf(v) == v = Half

\* add without its "x + 0 = x" branch
add_noRightZero(self, other) ==
    IF IsNum(self) /\ IsNum(other) THEN Num(NAdd(Val(self), Val(other)))
    ELSE IF IsNum(self) /\ IsZero(Val(self)) THEN other
    ELSE Add(self, other)

\* impl Add<Func> for Func
add(self, other) ==
    IF IsNum(self) /\ IsNum(other) THEN Num(NAdd(Val(self), Val(other)))
    ELSE IF IsNum(self) /\ IsZero(Val(self)) THEN other
    ELSE IF ~IsNum(self) /\ IsNum(other) /\ IsZero(Val(other)) THEN self
    ELSE Add(self, other)

\* impl Sub<Func> for Func
sub(self, other) ==
    IF IsNum(self) /\ IsNum(other) THEN Num(NSub(Val(self), Val(other)))
    ELSE IF IsNum(other) /\ IsZero(Val(other)) THEN self
    ELSE Sub(self, other)

\* impl Mul<Func> for Func
mul(self, other) ==
    IF IsNum(self) /\ IsNum(other) THEN Num(NMul(Val(self), Val(other)))
    ELSE IF IsNum(self) /\ IsZero(Val(self)) THEN Num(Zero)
    ELSE IF IsNum(self) /\ NearOne(Val(self)) THEN other
    ELSE IF ~IsNum(self) /\ IsNum(other) /\ IsZero(Val(other)) THEN Num(Zero)
    ELSE IF ~IsNum(self) /\ IsNum(other) /\ NearOne(Val(other)) THEN self
    ELSE Mul(self, other)

\* impl Div<Func> for Func
div(self, other) ==
    IF IsNum(self) /\ IsNum(other) THEN Num(NDiv(Val(self), Val(other)))
    ELSE IF IsNum(self) /\ IsZero(Val(self)) THEN Num(Zero)
    ELSE IF ~IsNum(self) /\ IsNum(other) /\ NearOne(Val(other)) THEN self
    ELSE Div(self, other)

\* Func::powi
powi(self, n) ==
    IF n = 0 THEN Num(Zero)
    ELSE IF n = 1 THEN self
    ELSE PowI(self, n)

\* Func::powc
powc(self, n) ==
    IF IsNum(self) THEN Num(NPowf(Val(self), n))
    ELSE IF IsZero(n) THEN Num(One)
    ELSE IF NearOne(n) THEN self
    ELSE IF NearHalf(n) THEN Sqrt(self)
    ELSE IF IsFin(n) /\ n.d = 1 /\ n.n < I32Max /\ n.n > -I32Max - 1 THEN PowI(self, n.n)
    ELSE PowC(self, n)

\* Func::sqrt, ln, exp, sin, cos, tan
sqrt(self) == IF IsNum(self) THEN Num(NSqrt(Val(self))) ELSE Sqrt(self)
ln(self) == IF IsNum(self) THEN Num(NLn(Val(self))) ELSE Ln(self)
exp(self) == IF IsNum(self) THEN Num(NExp(Val(self))) ELSE Exp(self)
sin(self) == IF IsNum(self) THEN Num(NSin(Val(self))) ELSE Sin(self)
cos(self) == IF IsNum(self) THEN Num(NCos(Val(self))) ELSE Cos(self)
tan(self) == IF IsNum(self) THEN Num(NTan(Val(self))) ELSE Tan(self)

\* Func::diff
RECURSIVE diff(_)
diff(self) ==
    LET t == Tag(self)
        a == self[2]
        b == self[3]
    IN  CASE t = "Arg" -> Num(One)
          [] t \in {"Num", "Im"} -> Num(Zero)
          [] t = "Add" -> add(diff(a), diff(b))
          [] t = "Sub" -> sub(diff(a), diff(b))
          [] t = "Mul" -> add(mul(a, diff(b)), mul(diff(a), b))
          [] t = "Div" -> div(sub(mul(diff(a), b), mul(a, diff(b))), powi(b, 2))
          [] t = "PowI" -> mul(mul(diff(a), powi(a, b - 1)), Num(Fin(b, 1)))
          [] t = "PowC" -> mul(mul(diff(a), powc(a, NSub(b, One))), Num(b))
          [] t = "Sqrt" -> div(diff(a), mul(sqrt(a), Num(Two)))
          [] t = "Exp" -> mul(diff(a), exp(a))
          [] t = "Ln" -> div(diff(a), a)
          [] t = "Sin" -> mul(diff(a), cos(a))
          [] t = "Cos" -> sub(Num(Zero), mul(diff(a), sin(a)))
          [] t = "Tan" -> div(diff(a), powi(cos(a), 2))

(***************************************************************************)
(* The value of a tree on the real axis (Func::calc of main.rs, the        *)
(* in-tree evaluator), for the trees of the polynomial and rational        *)
(* fragment: Arg, Num, Add, Sub, Mul, Div, PowI.                           *)
(***************************************************************************)
NPowi(a, n) ==
    IF n = 0 THEN One
    ELSE IF ~IsFin(a) THEN NPowf(a, Fin(n, 1))
    ELSE IF n > 0 THEN IPow(a, n)
    ELSE NDiv(One, IPow(a, -n))

RECURSIVE calc(_, _)
calc(self, x) ==
    LET t == Tag(self)
        a == self[2]
        b == self[3]
    IN  CASE t = "Arg" -> x
          [] t = "Num" -> a
          [] t = "Add" -> NAdd(calc(a, x), calc(b, x))
          [] t = "Sub" -> NSub(calc(a, x), calc(b, x))
          [] t = "Mul" -> NMul(calc(a, x), calc(b, x))
          [] t = "Div" -> NDiv(calc(a, x), calc(b, x))
          [] t = "PowI" -> NPowi(calc(a, x), b)

(***************************************************************************)
(* Bounds of the inputs.                                                   *)
(***************************************************************************)
MaxNodes == 3
NumVals == {Zero, One, Two, PInf, NaN}
IntExps == {-1, 0, 1, 2, 3}
RealExps == {Zero, One, Half, Two, Fin(3, 2)}
Leaves == {Arg, Im} \cup {Num(v) : v \in NumVals}
Operands == {Num(Zero), Num(One), Num(Two), Arg}

\* every tree of enum Func with exactly n nodes
RECURSIVE TreesOfSize(_)
TreesOfSize(n) ==
    IF n = 1 THEN Leaves
    ELSE LET sub1 == TreesOfSize(n - 1)
         IN  {<<tg, a>> : tg \in ElemTags, a \in sub1}
             \cup {PowI(a, m) : a \in sub1, m \in IntExps}
             \cup {PowC(a, Fin(3, 2)) : a \in sub1}
             \cup UNION {{<<tg, a, b>> : tg \in BinaryTags, a \in TreesOfSize(i),
                                         b \in TreesOfSize(n - 1 - i)} : i \in 1..(n - 2)}

AlgTrees == UNION {TreesOfSize(n) : n \in 1..MaxNodes}

NoTree == <<"None">>
NoCall == [fn |-> "none", lhs |-> NoTree, rhs |-> NoTree, n |-> 0, x |-> Zero]

(***************************************************************************)
(* SpecAlg: one call of a constructor of the algebra, or of diff, on a     *)
(* tree drawn from AlgTrees.                                               *)
(***************************************************************************)
notAlgVars == <<parseVars, palVars, rootVars, newtonVars, renderVars, pixelVars, viewVars, genVars>>

InitAlg ==
    /\ e \in AlgTrees /\ call = NoCall /\ result = NoTree
    /\ stack = <<>> /\ deriv = NoTree /\ ntok = 0
    /\ toks = <<>> /\ acc = <<>> /\ out = <<>>
    /\ rows = <<>> /\ rowOut = <<>> /\ registry = <<>> /\ sortAlgo = "head"
    /\ z = "fin" /\ d = 0 /\ fsmall = FALSE /\ firstSmall = -1 /\ found = "none" /\ npc = "idle"
    /\ height = 0 /\ width = 0 /\ colorize = FALSE /\ pixres = <<>> /\ rowBuf = <<>>
    /\ doneOrder = <<>> /\ image = <<>> /\ rpc = "idle"
    /\ gtree = <<>> /\ gcode = <<>>
    /\ coord = <<>> /\ cres = "none" /\ vwidth = <<>> /\ seed = <<>>
    /\ parg = <<>> /\ ppal = <<>> /\ pin = <<>> /\ pout = <<>>

Binary(fn, l, r) ==
    CASE fn = "add" -> add(l, r)
      [] fn = "sub" -> sub(l, r)
      [] fn = "mul" -> mul(l, r)
      [] fn = "div" -> div(l, r)

\* lhs (op) rhs, with e on one side and a small operand on the other
CallBinary ==
    /\ call = NoCall
    /\ \E fn \in {"add", "sub", "mul", "div"}, o \in Operands, swap \in BOOLEAN :
          LET l == IF swap THEN o ELSE e
              r == IF swap THEN e ELSE o
          IN  /\ call' = [fn |-> fn, lhs |-> l, rhs |-> r, n |-> 0, x |-> Zero]
              /\ result' = Binary(fn, l, r)
    /\ UNCHANGED <<e, notAlgVars>>

CallPowi ==
    /\ call = NoCall
    /\ \E m \in IntExps :
          /\ call' = [fn |-> "powi", lhs |-> e, rhs |-> NoTree, n |-> m, x |-> Zero]
          /\ result' = powi(e, m)
    /\ UNCHANGED <<e, notAlgVars>>

CallPowc ==
    /\ call = NoCall
    /\ \E y \in RealExps :
          /\ call' = [fn |-> "powc", lhs |-> e, rhs |-> NoTree, n |-> 0, x |-> y]
          /\ result' = powc(e, y)
    /\ UNCHANGED <<e, notAlgVars>>

CallDiff ==
    /\ call = NoCall
    /\ call' = [fn |-> "diff", lhs |-> e, rhs |-> NoTree, n |-> 0, x |-> Zero]
    /\ result' = diff(e)
    /\ UNCHANGED <<e, notAlgVars>>

NextAlg == CallBinary \/ CallPowi \/ CallPowc \/ CallDiff
SpecAlg == InitAlg /\ [][NextAlg]_vars

(***************************************************************************)
(* SpecParse: eval_func (func.rs) run by the Pratt parser.  The parser     *)
(* hands every primary to map_primary and every operator, with its two     *)
(* evaluated operands, to map_infix; stack holds the operands evaluated so *)
(* far.  The parsed function is then differentiated (main).                *)
(***************************************************************************)
MaxStack == 2
MaxTokens == 5
\* the values of the literals, and of pi and e
NumLits == {Zero, One, Two, Half, Irr}
Primaries == {Arg, Im} \cup {Num(v) : v \in NumLits}

Top(st) == st[Len(st)]
Pop(st) == SubSeq(st, 1, Len(st) - 1)
notParseVars == <<algVars, palVars, rootVars, newtonVars, renderVars, pixelVars, viewVars, genVars>>

InitParse ==
    /\ stack = <<>> /\ deriv = NoTree /\ ntok = 0
    /\ e = Arg /\ call = NoCall /\ result = NoTree
    /\ toks = <<>> /\ acc = <<>> /\ out = <<>>
    /\ rows = <<>> /\ rowOut = <<>> /\ registry = <<>> /\ sortAlgo = "head"
    /\ z = "fin" /\ d = 0 /\ fsmall = FALSE /\ firstSmall = -1 /\ found = "none" /\ npc = "idle"
    /\ height = 0 /\ width = 0 /\ colorize = FALSE /\ pixres = <<>> /\ rowBuf = <<>>
    /\ doneOrder = <<>> /\ image = <<>> /\ rpc = "idle"
    /\ gtree = <<>> /\ gcode = <<>>
    /\ coord = <<>> /\ cres = "none" /\ vwidth = <<>> /\ seed = <<>>
    /\ parg = <<>> /\ ppal = <<>> /\ pin = <<>> /\ pout = <<>>

\* map_primary: Rule::arg, num, pi, e, im
Primary ==
    /\ deriv = NoTree /\ Len(stack) < MaxStack /\ ntok < MaxTokens
    /\ \E p \in Primaries : stack' = Append(stack, p)
    /\ ntok' = ntok + 1
    /\ UNCHANGED <<deriv, notParseVars>>

\* map_primary: Rule::negated_term, whose term has been evaluated
NegatedTerm ==
    /\ deriv = NoTree /\ stack # <<>> /\ ntok < MaxTokens
    /\ stack' = Append(Pop(stack), Sub(Num(Zero), Top(stack)))
    /\ ntok' = ntok + 1
    /\ UNCHANGED <<deriv, notParseVars>>

FuncCallOf(name, a) ==
    CASE name = "ln" -> ln(a)
      [] name = "sqrt" -> sqrt(a)
      [] name = "exp" -> exp(a)
      [] name = "sin" -> sin(a)
      [] name = "cos" -> cos(a)
      [] name = "tan" -> tan(a)

\* map_primary: Rule::func_call, whose argument has been evaluated
FuncCall ==
    /\ deriv = NoTree /\ stack # <<>> /\ ntok < MaxTokens
    /\ \E name \in {"ln", "sqrt", "exp", "sin", "cos", "tan"} :
          stack' = Append(Pop(stack), FuncCallOf(name, Top(stack)))
    /\ ntok' = ntok + 1
    /\ UNCHANGED <<deriv, notParseVars>>

\* map_infix: Rule::add, subtract, multiply, divide
Infix ==
    /\ deriv = NoTree /\ Len(stack) >= 2 /\ ntok < MaxTokens
    /\ \E fn \in {"add", "sub", "mul", "div"} :
          stack' = Append(Pop(Pop(stack)), Binary(fn, Top(Pop(stack)), Top(stack)))
    /\ ntok' = ntok + 1
    /\ UNCHANGED <<deriv, notParseVars>>

\* map_infix: Rule::power_c, whose right operand has to be a Num
PowerC ==
    /\ deriv = NoTree /\ Len(stack) >= 2 /\ IsNum(Top(stack)) /\ ntok < MaxTokens
    /\ stack' = Append(Pop(Pop(stack)), powc(Top(Pop(stack)), Val(Top(stack))))
    /\ ntok' = ntok + 1
    /\ UNCHANGED <<deriv, notParseVars>>

\* main: f.clone().diff() on the function parse_func returned
DiffParsed ==
    /\ deriv = NoTree /\ Len(stack) = 1
    /\ deriv' = diff(stack[1])
    /\ UNCHANGED <<stack, ntok, notParseVars>>

NextParse == Primary \/ NegatedTerm \/ FuncCall \/ Infix \/ PowerC \/ DiffParsed
SpecParse == InitParse /\ [][NextParse]_vars

(***************************************************************************)
(* SpecPalette: get_palette (palette.rs) run by the Pratt parser on        *)
(*     color (separator color)*                                            *)
(* All three separators are infix operators of one precedence, left        *)
(* associative, so map_infix is called once per separator, from left to    *)
(* right, with the accumulated palette as lhs and one primary as rhs.      *)
(***************************************************************************)
MaxColors == 3
MaxK == 2
Black == <<0, 0, 0>>
Colors == {Black, <<1, 1, 1>>, <<255, 255, 255>>}
NoDef == [some |-> FALSE, c |-> Black, h |-> FALSE]
NoOut == [done |-> FALSE, table |-> <<>>, def |-> Black]
notPalVars == <<algVars, parseVars, rootVars, newtonVars, renderVars, pixelVars, viewVars, genVars>>

U16(x) == x % 65536
U8(x) == x % 256

\* one channel of the i-th of len colours between lf and fr, in u16, cast to u8
Channel(fr, lf, i, len) ==
    U8(U16(U16(U16(fr * i) \div U16(len + 1))
           + U16(U16(lf * U16(U16(len - i) + 1)) \div U16(len + 1))))

InterpColor(fr, lf, i, len) ==
    <<Channel(fr[1], lf[1], i, len), Channel(fr[2], lf[2], i, len),
      Channel(fr[3], lf[3], i, len)>>

\* map_primary: Rule::color (hidden = FALSE) and Rule::hidden_color (hidden = TRUE)
map_primary(c, hidden) == [cols |-> <<[c |-> c, h |-> hidden]>>, def |-> NoDef]

\* the table without the hidden filter
Visible_keepHidden(cols) == [i \in 1..Len(cols) |-> cols[i].c]

\* the colours flagged hidden are dropped from the table
Visible(cols) ==
    LET vis == SelectSeq(cols, LAMBDA p : ~p.h)
    IN  [i \in 1..Len(vis) |-> vis[i].c]

\* map_infix: Rule::simple_separator
simple_separator(lhs, rhs) == [cols |-> lhs.cols \o rhs.cols, def |-> NoDef]

\* map_infix: Rule::full_separator with len colours
full_separator(lhs, len, rhs) ==
    LET lf == lhs.cols[Len(lhs.cols)].c
        fr == rhs.cols[1].c
    IN  [cols |-> lhs.cols
                  \o [i \in 1..len |-> [c |-> InterpColor(fr, lf, i, len), h |-> FALSE]]
                  \o rhs.cols,
         def |-> NoDef]

\* map_infix: Rule::default_separator
default_separator(lhs, rhs) ==
    [cols |-> lhs.cols, def |-> [some |-> TRUE, c |-> rhs.cols[1].c, h |-> rhs.cols[1].h]]

\* what get_palette returns for the accumulated palette
get_palette(p) ==
    [done |-> TRUE, table |-> Visible(p.cols),
     def |-> IF p.def.some THEN p.def.c ELSE Black]

InitPalette ==
    /\ toks = <<>> /\ acc = <<>> /\ out = NoOut
    /\ e = Arg /\ call = NoCall /\ result = NoTree
    /\ stack = <<>> /\ deriv = NoTree /\ ntok = 0
    /\ rows = <<>> /\ rowOut = <<>> /\ registry = <<>> /\ sortAlgo = "head"
    /\ z = "fin" /\ d = 0 /\ fsmall = FALSE /\ firstSmall = -1 /\ found = "none" /\ npc = "idle"
    /\ height = 0 /\ width = 0 /\ colorize = FALSE /\ pixres = <<>> /\ rowBuf = <<>>
    /\ doneOrder = <<>> /\ image = <<>> /\ rpc = "idle"
    /\ gtree = <<>> /\ gcode = <<>>
    /\ coord = <<>> /\ cres = "none" /\ vwidth = <<>> /\ seed = <<>>
    /\ parg = <<>> /\ ppal = <<>> /\ pin = <<>> /\ pout = <<>>

Tok(sep, k, c, h) == [sep |-> sep, k |-> k, c |-> c, h |-> h]

\* the grammar (palette.pest): a palette is a colour followed by any number of
\* "separator colour", whichever the separators
PaletteStart(ts) == ts = <<>>
PaletteMore(ts) == ts # <<>> /\ Len(ts) < MaxColors

\* the first colour of the expression
FirstColor ==
    /\ PaletteStart(toks) /\ ~out.done
    /\ \E c \in Colors, h \in BOOLEAN :
          /\ toks' = <<Tok("first", 0, c, h)>>
          /\ acc' = map_primary(c, h)
    /\ UNCHANGED <<out, notPalVars>>

\* "> color"
SimpleSeparator ==
    /\ PaletteMore(toks) /\ ~out.done
    /\ \E c \in Colors, h \in BOOLEAN :
          /\ toks' = Append(toks, Tok("simple", 0, c, h))
          /\ acc' = simple_separator(acc, map_primary(c, h))
    /\ UNCHANGED <<out, notPalVars>>

\* "-(k)> color"
FullSeparator ==
    /\ PaletteMore(toks) /\ ~out.done
    /\ \E c \in Colors, h \in BOOLEAN, k \in 1..MaxK :
          /\ toks' = Append(toks, Tok("full", k, c, h))
          /\ acc' = full_separator(acc, k, map_primary(c, h))
    /\ UNCHANGED <<out, notPalVars>>

\* "|> color"
DefaultSeparator ==
    /\ PaletteMore(toks) /\ ~out.done
    /\ \E c \in Colors, h \in BOOLEAN :
          /\ toks' = Append(toks, Tok("default", 0, c, h))
          /\ acc' = default_separator(acc, map_primary(c, h))
    /\ UNCHANGED <<out, notPalVars>>

\* end of input: map_postfix, then the hidden filter and the default
Finish ==
    /\ toks # <<>> /\ ~out.done
    /\ out' = get_palette(acc)
    /\ UNCHANGED <<toks, acc, notPalVars>>

NextPalette == FirstColor \/ SimpleSeparator \/ FullSeparator \/ DefaultSeparator \/ Finish
SpecPalette == InitPalette /\ [][NextPalette]_vars

(***************************************************************************)
(* SpecRoots: find_roots (main.rs).  A convergence endpoint is a point of  *)
(* a grid whose step is half of ROOT_PRECISION, so that ROOT_PRECISION is  *)
(* 2 in grid units.  rows holds the endpoints find_root returned for the   *)
(* pixels of each row, in column order.                                    *)
(***************************************************************************)
ROOT_PRECISION == 2
GridCoords == 0..2
MaxRows == 2
MaxRowLen == 3
MaxPoints == 3
Points == [re : GridCoords, im : GridCoords]
NoRow == <<[re |-> -1, im |-> -1]>>
notRootVars == <<algVars, parseVars, palVars, newtonVars, renderVars, pixelVars, viewVars, genVars>>

\* (a - b).norm() < ROOT_PRECISION
Near(a, b) ==
    (a.re - b.re) * (a.re - b.re) + (a.im - b.im) * (a.im - b.im)
        < ROOT_PRECISION * ROOT_PRECISION

\* x.partial_cmp(&y).unwrap() on two numbers
PartialCmp(x, y) == IF x < y THEN "Less" ELSE IF x > y THEN "Greater" ELSE "Equal"

\* the closure of sort_float
sort_float_cmp(a, b) ==
    IF PartialCmp(a.re, b.re) = "Equal" \/ Abs(a.re - b.re) < ROOT_PRECISION
    THEN IF PartialCmp(a.im, b.im) = "Equal" \/ Abs(a.im - b.im) < ROOT_PRECISION
         THEN "Equal"
         ELSE PartialCmp(a.im, b.re)
    ELSE PartialCmp(a.re, b.im)

\* the closure of sort_float_rev
sort_float_rev_cmp(a, b) ==
    IF PartialCmp(a.im, b.im) = "Equal" \/ Abs(a.im - b.im) < ROOT_PRECISION
    THEN IF PartialCmp(a.re, b.re) = "Equal" \/ Abs(a.re - b.re) < ROOT_PRECISION
         THEN "Equal"
         ELSE PartialCmp(a.re, b.re)
    ELSE PartialCmp(a.im, b.im)

Compare(rev, a, b) == IF rev THEN sort_float_rev_cmp(a, b) ELSE sort_float_cmp(a, b)
IsLess(rev, a, b) == Compare(rev, a, b) = "Less"

(***************************************************************************)
(* slice::sort_by on a short slice (up to 20 elements) is an insertion     *)
(* sort.  With a closure that is no total order the result depends on      *)
(* which one the standard library runs: insert_head from the right end     *)
(* (merge_sort, up to Rust 1.80) or insert_tail from the left end          *)
(* (insertion_sort_shift_left, from 1.81).                                 *)
(***************************************************************************)
\* the number of elements at the front of s that are less than tmp
RECURSIVE RunLess(_, _, _)
RunLess(rev, s, tmp) ==
    IF s # <<>> /\ IsLess(rev, Head(s), tmp) THEN 1 + RunLess(rev, Tail(s), tmp) ELSE 0

\* insert_head: s[1] moves right, past the elements less than it
InsertHead(rev, s) ==
    LET k == RunLess(rev, Tail(s), s[1])
    IN  SubSeq(s, 2, k + 1) \o <<s[1]>> \o SubSeq(s, k + 2, Len(s))

\* the number of elements at the back of s that tmp is less than
RECURSIVE RunGreater(_, _, _)
RunGreater(rev, s, tmp) ==
    IF s # <<>> /\ IsLess(rev, tmp, s[Len(s)])
    THEN 1 + RunGreater(rev, SubSeq(s, 1, Len(s) - 1), tmp)
    ELSE 0

\* insert_tail: the last element moves left, past the elements it is less than
InsertTail(rev, s) ==
    LET n == Len(s)
        k == RunGreater(rev, SubSeq(s, 1, n - 1), s[n])
    IN  SubSeq(s, 1, n - 1 - k) \o <<s[n]>> \o SubSeq(s, n - k, n - 1)

RECURSIVE SortBy(_, _, _)
SortBy(algo, rev, v) ==
    IF Len(v) <= 1 THEN v
    ELSE IF algo = "head" THEN InsertHead(rev, <<Head(v)>> \o SortBy(algo, rev, Tail(v)))
    ELSE InsertTail(rev, Append(SortBy(algo, rev, SubSeq(v, 1, Len(v) - 1)), v[Len(v)]))

sort_float(algo, v) == SortBy(algo, FALSE, v)
sort_float_rev(algo, v) == SortBy(algo, TRUE, v)

\* filter_map(|root| uniq(&mut x, root)): x is the element before, kept or not
uniq(v) ==
    LET keep == {i \in DOMAIN v : i = 1 \/ ~Near(v[i], v[i - 1])}
        RECURSIVE Pick(_)
        Pick(i) == IF i > Len(v) THEN <<>>
                   ELSE (IF i \in keep THEN <<v[i]>> ELSE <<>>) \o Pick(i + 1)
    IN  Pick(1)

uniq_vec(algo, v) == uniq(sort_float_rev(algo, uniq(sort_float(algo, v))))

RECURSIVE Flatten(_)
Flatten(ss) == IF ss = <<>> THEN <<>> ELSE Head(ss) \o Flatten(Tail(ss))

SeqsUpTo(S, n) == UNION {[1..m -> S] : m \in 0..n}

InitRoots ==
    /\ rows \in {r \in UNION {[1..h -> SeqsUpTo(Points, MaxRowLen)] : h \in 1..MaxRows} :
                    Len(Flatten(r)) <= MaxPoints}
    /\ rowOut = [i \in DOMAIN rows |-> NoRow]
    /\ registry = NoRow
    /\ sortAlgo \in {"head", "tail"}
    /\ e = Arg /\ call = NoCall /\ result = NoTree
    /\ stack = <<>> /\ deriv = NoTree /\ ntok = 0
    /\ toks = <<>> /\ acc = <<>> /\ out = NoOut
    /\ z = "fin" /\ d = 0 /\ fsmall = FALSE /\ firstSmall = -1 /\ found = "none" /\ npc = "idle"
    /\ height = 0 /\ width = 0 /\ colorize = FALSE /\ pixres = <<>> /\ rowBuf = <<>>
    /\ doneOrder = <<>> /\ image = <<>> /\ rpc = "idle"
    /\ gtree = <<>> /\ gcode = <<>>
    /\ coord = <<>> /\ cres = "none" /\ vwidth = <<>> /\ seed = <<>>
    /\ parg = <<>> /\ ppal = <<>> /\ pin = <<>> /\ pout = <<>>

\* the closure of the parallel map on row i: uniq_vec of the row's endpoints
RootsRow ==
    \E i \in DOMAIN rows :
        /\ rowOut[i] = NoRow
        /\ rowOut' = [rowOut EXCEPT ![i] = uniq_vec(sortAlgo, rows[i])]
        /\ UNCHANGED <<rows, registry, sortAlgo, notRootVars>>

\* flatten().collect() keeps the order of the rows; then the outer uniq_vec
RootsCollect ==
    /\ registry = NoRow
    /\ \A i \in DOMAIN rows : rowOut[i] # NoRow
    /\ registry' = uniq_vec(sortAlgo, Flatten(rowOut))
    /\ UNCHANGED <<rows, rowOut, sortAlgo, notRootVars>>

NextRoots == RootsRow \/ RootsCollect
SpecRoots == InitRoots /\ [][NextRoots]_vars

(***************************************************************************)
(* SpecNewton: find_root (main.rs), one action per branch of               *)
(* find_root_func.  The functions f and g are abstracted to what the       *)
(* recursion observes of them: the kind of the current point z (finite,    *)
(* with an infinite component and no NaN, or with a NaN component) and     *)
(* whether f.calc(z).norm() < PRECISION there.                             *)
(*                                                                         *)
(* A point with a NaN component is never small: NaN goes through +, -, *,  *)
(* /, powi and powf of Complex<f64>, and norm() of it is NaN or infinite.  *)
(* An infinite point can be small: powf with a negative exponent maps      *)
(* (inf, 0) to (0, -0).  For f = 1e150 * x^(-1e-8), g = f.diff() and the   *)
(* seed 1e301 + 0i, f(z0) is about 1e150 and g(z0) about -1e-159, the      *)
(* quotient overflows to (-inf, 0), z1 is (inf, 0) and f(z1) is (0, 0).    *)
(* Subtracting from a non-finite point never gives a finite one.           *)
(***************************************************************************)
ROOT_ITER == 256
PointKinds == {"fin", "inf", "nan"}
notNewtonVars == <<algVars, parseVars, palVars, rootVars, renderVars, pixelVars, viewVars, genVars>>

\* the kinds x - f.calc(x) / g.calc(x) can have
StepKinds(k) ==
    IF k = "fin" THEN PointKinds ELSE IF k = "inf" THEN {"inf", "nan"} ELSE {"nan"}

\* the values f.calc(x).norm() < PRECISION can have
SmallAt(k) == IF k = "nan" THEN {FALSE} ELSE BOOLEAN

\* find_root(x, f, g) = find_root_func(x, f, g, 0), x a point of the viewport
InitNewton ==
    /\ z = "fin" /\ d = 0 /\ fsmall \in SmallAt("fin")
    /\ firstSmall = (IF fsmall THEN 0 ELSE -1)
    /\ found = "none" /\ npc = "run"
    /\ e = Arg /\ call = NoCall /\ result = NoTree
    /\ stack = <<>> /\ deriv = NoTree /\ ntok = 0
    /\ toks = <<>> /\ acc = <<>> /\ out = NoOut
    /\ rows = <<>> /\ rowOut = <<>> /\ registry = <<>> /\ sortAlgo = "head"
    /\ height = 0 /\ width = 0 /\ colorize = FALSE /\ pixres = <<>> /\ rowBuf = <<>>
    /\ doneOrder = <<>> /\ image = <<>> /\ rpc = "idle"
    /\ gtree = <<>> /\ gcode = <<>>
    /\ coord = <<>> /\ cres = "none" /\ vwidth = <<>> /\ seed = <<>>
    /\ parg = <<>> /\ ppal = <<>> /\ pin = <<>> /\ pout = <<>>

\* if f.calc(x).norm() < PRECISION { (Some(x), d) }
ReturnSome ==
    /\ npc = "run" /\ fsmall
    /\ found' = "Some" /\ npc' = "done"
    /\ UNCHANGED <<z, d, fsmall, firstSmall, notNewtonVars>>

\* else if d == ROOT_ITER { (None, d) }
ReturnNone ==
    /\ npc = "run" /\ ~fsmall /\ d = ROOT_ITER
    /\ found' = "None" /\ npc' = "done"
    /\ UNCHANGED <<z, d, fsmall, firstSmall, notNewtonVars>>

\* else { find_root_func(x - f.calc(x) / g.calc(x), f, g, d + 1) }
Recurse ==
    /\ npc = "run" /\ ~fsmall /\ d # ROOT_ITER
    /\ \E k \in StepKinds(z), sm \in BOOLEAN :
        /\ sm \in SmallAt(k)
        /\ z' = k /\ fsmall' = sm
        /\ firstSmall' = (IF sm THEN d + 1 ELSE -1)
    /\ d' = d + 1
    /\ UNCHANGED <<found, npc, notNewtonVars>>

NextNewton == ReturnSome \/ ReturnNone \/ Recurse
SpecNewton == InitNewton /\ [][NextNewton]_vars

(***************************************************************************)
(* SpecRender: newton (main.rs).  pixres[i][j] is what find_root returns   *)
(* for the seed of pixel (i - 1, j - 1): whether it found a root, the      *)
(* index of the first registry root near it (-1 when none is) and the      *)
(* step count.  The rows are mapped in parallel, in any order; rayon's     *)
(* collect keeps the order of the row indices.                             *)
(***************************************************************************)
CONTRAST == 4
MaxH == 3
MaxW == 2
RenderPalette == <<<<255, 0, 0>>, <<0, 255, 0>>, <<0, 0, 255>>>>
PixelOutcomes ==
    {[root |-> "None", idx |-> -1, dep |-> ROOT_ITER], [root |-> "Some", idx |-> 1, dep |-> 3]}
NoBuf == <<-1>>
notRenderVars == <<algVars, parseVars, palVars, rootVars, newtonVars, pixelVars, viewVars, genVars>>

\* find_newton whose grey level is not capped by min(255.0)
find_newton_noClamp(res, col, palette) ==
    IF res.root = "None" THEN <<0, 0, 0>>
    ELSE IF col
         THEN palette[(IF res.idx = -1 THEN Len(palette) - 1
                       ELSE res.idx % (Len(palette) - 1)) + 1]
         ELSE LET c == U8(255 - U8((res.dep * 255 * CONTRAST) \div ROOT_ITER))
              IN  <<c, c, c>>

\* find_newton, given find_root's outcome for the seed
find_newton(res, col, palette) ==
    IF res.root = "None" THEN <<0, 0, 0>>
    ELSE IF col
         THEN palette[(IF res.idx = -1 THEN Len(palette) - 1
                       ELSE res.idx % (Len(palette) - 1)) + 1]
         ELSE LET c == 255 - Min((res.dep * 255 * CONTRAST) \div ROOT_ITER, 255)
              IN  <<c, c, c>>

\* the closure of the outer map: the bytes of row i
RowBytes(i) == Flatten([j \in 1..width |-> find_newton(pixres[i][j], colorize, RenderPalette)])

\* flatten().collect::<Vec<_>>() of the rows' buffers
Assemble_completionOrder(bufs, order) == Flatten([n \in 1..Len(order) |-> bufs[order[n]]])

Assemble(bufs, order) == Flatten(bufs)

InitRender ==
    /\ height \in 1..MaxH /\ width \in 1..MaxW /\ colorize \in BOOLEAN
    /\ pixres \in [1..height -> [1..width -> PixelOutcomes]]
    /\ rowBuf = [i \in 1..height |-> NoBuf]
    /\ doneOrder = <<>> /\ image = NoBuf /\ rpc = "map"
    /\ gtree = <<>> /\ gcode = <<>>
    /\ coord = <<>> /\ cres = "none" /\ vwidth = <<>> /\ seed = <<>>
    /\ parg = <<>> /\ ppal = <<>> /\ pin = <<>> /\ pout = <<>>
    /\ e = Arg /\ call = NoCall /\ result = NoTree
    /\ stack = <<>> /\ deriv = NoTree /\ ntok = 0
    /\ toks = <<>> /\ acc = <<>> /\ out = NoOut
    /\ rows = <<>> /\ rowOut = <<>> /\ registry = <<>> /\ sortAlgo = "head"
    /\ z = "fin" /\ d = 0 /\ fsmall = FALSE /\ firstSmall = -1 /\ found = "none" /\ npc = "idle"

\* a worker runs the closure on a row that is still to do
RenderRow ==
    /\ rpc = "map"
    /\ \E i \in 1..height :
        /\ rowBuf[i] = NoBuf
        /\ rowBuf' = [rowBuf EXCEPT ![i] = RowBytes(i)]
        /\ doneOrder' = Append(doneOrder, i)
    /\ UNCHANGED <<height, width, colorize, pixres, image, rpc, notRenderVars>>

\* collect, once every row is mapped
Collect ==
    /\ rpc = "map"
    /\ \A i \in 1..height : rowBuf[i] # NoBuf
    /\ image' = Assemble(rowBuf, doneOrder)
    /\ rpc' = "done"
    /\ UNCHANGED <<height, width, colorize, pixres, rowBuf, doneOrder, notRenderVars>>

NextRender == RenderRow \/ Collect
SpecRender == InitRender /\ [][NextRender]_vars

(***************************************************************************)
(* SpecPixel: the palette of main.rs and find_newton on one pixel.  The    *)
(* command line gives --palette (colours separated by ";"), --gradient     *)
(* ("c1;c2;len") or neither; clap runs the validator of the argument, and  *)
(* main runs get_palette only when the validator returned Ok.  A colour    *)
(* string is either three u8 values or BadColor, a string validate_color   *)
(* rejects.                                                                *)
(***************************************************************************)
MaxPalLen == 2
MaxGradLen == 3
MaxRegistry == 2
PxColors == {<<255, 0, 0>>, <<10, 20, 30>>}
BadColor == <<-1, -1, -1>>
Panic == <<"panic">>
NoPal == <<>>
notPixelVars == <<algVars, parseVars, palVars, rootVars, newtonVars, renderVars, viewVars, genVars>>

PaletteArgs ==
    {[kind |-> "palette", cols |-> cs] : cs \in SeqsUpTo(PxColors \cup {BadColor}, MaxPalLen) \ {<<>>}}
    \cup {[kind |-> "gradient", parts |-> n, c1 |-> a, c2 |-> b, len |-> l] :
            n \in {2, 3, 4}, a \in PxColors \cup {BadColor}, b \in PxColors, l \in 0..MaxGradLen}
    \cup {[kind |-> "none"]}

validate_color(c) == c # BadColor

\* validate_palette of main.rs: every part is a colour
validate_palette_main(a) == \A i \in DOMAIN a.cols : validate_color(a.cols[i])

\* validate_gradient: three parts, two colours and a u8 length that is not 0
validate_gradient(a) ==
    a.parts = 3 /\ validate_color(a.c1) /\ validate_color(a.c2) /\ a.len # 0

\* what clap's validator says of the argument
Validated(a) ==
    IF a.kind = "palette" THEN validate_palette_main(a)
    ELSE IF a.kind = "gradient" THEN validate_gradient(a)
    ELSE TRUE

\* one channel of the i-th colour (from 0) of the gradient: u16 arithmetic, cast to u8;
\* a division by zero panics
GradChannel(c1, c2, i, len) ==
    IF len - 1 = 0 THEN -1
    ELSE U8(U16(U16(U16(c2 * i) \div U16(len - 1))
                + U16(U16(c1 * U16(len - i - 1)) \div U16(len - 1))))

GradColor(c1, c2, i, len) ==
    <<GradChannel(c1[1], c2[1], i, len), GradChannel(c1[2], c2[2], i, len),
      GradChannel(c1[3], c2[3], i, len)>>

DefaultPalette ==
    <<<<255, 0, 0>>, <<0, 255, 0>>, <<0, 0, 255>>, <<0, 255, 255>>, <<255, 0, 255>>,
      <<255, 255, 0>>, <<0, 0, 0>>>>

\* get_palette of main.rs: the colours of the argument, then (0, 0, 0)
get_palette_main(a) ==
    IF a.kind = "palette" THEN Append(a.cols, <<0, 0, 0>>)
    ELSE IF a.kind = "gradient"
         THEN IF a.len - 1 = 0 THEN Panic
              ELSE Append([i \in 1..a.len |-> GradColor(a.c1, a.c2, i - 1, a.len)], <<0, 0, 0>>)
         ELSE DefaultPalette

\* roots.iter().enumerate().find(..): the index, from 0, of the last root near pt
FirstNear_last(roots, pt) ==
    LET hits == {i \in DOMAIN roots : Near(roots[i], pt)}
    IN  IF hits = {} THEN -1 ELSE (CHOOSE i \in hits : \A k \in hits : k <= i) - 1

\* roots.iter().enumerate().find(..): the index, from 0, of the first root near pt,
\* -1 for usize::MAX when there is none
FirstNear(roots, pt) ==
    LET hits == {i \in DOMAIN roots : Near(roots[i], pt)}
    IN  IF hits = {} THEN -1 ELSE (CHOOSE i \in hits : \A k \in hits : i <= k) - 1

InitPixel ==
    /\ parg = <<>> /\ ppal = NoPal /\ pin = <<>> /\ pout = <<>>
    /\ e = Arg /\ call = NoCall /\ result = NoTree
    /\ stack = <<>> /\ deriv = NoTree /\ ntok = 0
    /\ toks = <<>> /\ acc = <<>> /\ out = NoOut
    /\ rows = <<>> /\ rowOut = <<>> /\ registry = <<>> /\ sortAlgo = "head"
    /\ z = "fin" /\ d = 0 /\ fsmall = FALSE /\ firstSmall = -1 /\ found = "none" /\ npc = "idle"
    /\ height = 0 /\ width = 0 /\ colorize = FALSE /\ pixres = <<>> /\ rowBuf = <<>>
    /\ doneOrder = <<>> /\ image = <<>> /\ rpc = "idle"
    /\ gtree = <<>> /\ gcode = <<>>
    /\ coord = <<>> /\ cres = "none" /\ vwidth = <<>> /\ seed = <<>>

\* clap validates the argument
ValidateArg ==
    /\ parg = <<>>
    /\ \E a \in PaletteArgs : parg' = [arg |-> a, valid |-> Validated(a)]
    /\ UNCHANGED <<ppal, pin, pout, notPixelVars>>

\* main: get_palette(&matches), after validation
BuildPalette ==
    /\ parg # <<>> /\ parg.valid /\ ppal = NoPal
    /\ ppal' = get_palette_main(parg.arg)
    /\ UNCHANGED <<parg, pin, pout, notPixelVars>>

\* find_newton on a pixel without a registry (colorize = false): any step count
FindNewtonGray ==
    /\ ppal \notin {NoPal, Panic} /\ pin = <<>>
    /\ \E r \in {"None", "Some"}, n \in 0..ROOT_ITER :
        /\ r = "None" => n = ROOT_ITER
        /\ pin' = [root |-> r, idx |-> -1, dep |-> n, col |-> FALSE,
                   roots |-> <<>>, pt |-> [re |-> 0, im |-> 0]]
        /\ pout' = find_newton(pin', FALSE, ppal)
    /\ UNCHANGED <<parg, ppal, notPixelVars>>

\* find_newton on a pixel with the registry find_roots returned (colorize = true)
FindNewtonPalette ==
    /\ ppal \notin {NoPal, Panic} /\ pin = <<>>
    /\ \E r \in {"None", "Some"}, v \in SeqsUpTo(Points, MaxRegistry),
         algo \in {"head", "tail"}, q \in Points :
        LET roots == uniq_vec(algo, v)
        IN  /\ pin' = [root |-> r, idx |-> FirstNear(roots, q),
                       dep |-> IF r = "None" THEN ROOT_ITER ELSE 0,
                       col |-> TRUE, roots |-> roots, pt |-> q]
            /\ pout' = find_newton(pin', TRUE, ppal)
    /\ UNCHANGED <<parg, ppal, notPixelVars>>

NextPixel == ValidateArg \/ BuildPalette \/ FindNewtonGray \/ FindNewtonPalette
SpecPixel == InitPixel /\ [][NextPixel]_vars

(***************************************************************************)
(* SpecView: validate_coord and get_coord (coord.rs, the same code as in   *)
(* main.rs), calculate_width and complex_by_coord (main.rs).  A string is  *)
(* what split(';') and split(',') make of it: a sequence of parts, each a  *)
(* sequence of fields; a field is the f64 its trimmed text parses to       *)
(* ("NaN" and "inf" parse), or BadNum when parse fails.                    *)
(*                                                                         *)
(* u32::MAX is beyond the 32-bit integers of TLC, so a width is a record:  *)
(* [k |-> "val", v |-> n] or U32Max.  The inputs are chosen so that every  *)
(* product (x2 - x1) / (y2 - y1) * height is below 2^31 or at least 2^32.  *)
(***************************************************************************)
MaxParts == 3
MaxFields == 3
BadNum == [k |-> "bad", n |-> 0, d |-> 1]
XFields == {Zero, One, Two, NaN, PInf, BadNum}
YFields == {Zero, Fin(1, 256), One, NaN, PInf, BadNum}
Heights == {1, 2, 3, 16777216}
U32Max == [k |-> "u32max", v |-> 0]
U32(n) == [k |-> "val", v |-> n]
notViewVars ==
    <<algVars, parseVars, palVars, rootVars, newtonVars, renderVars, pixelVars, genVars>>

\* the strings: every x1,y1;x2,y2 over the fields, and every other shape of parts and
\* fields, filled with the number 1
CoordStrings ==
    {<<<<x1, y1>>, <<x2, y2>>>> : x1 \in XFields, y1 \in YFields, x2 \in XFields, y2 \in YFields}
    \cup (SeqsUpTo({[i \in 1..m |-> One] : m \in 1..MaxFields}, MaxParts) \ {<<>>})

\* a >= b in f64: false when either is NaN
NGe(a, b) ==
    CASE a.k = "nan" \/ b.k = "nan" -> FALSE
      [] a.k = "pinf" \/ b.k = "ninf" -> TRUE
      [] a.k = "ninf" \/ b.k = "pinf" -> FALSE
      [] OTHER -> a.n * b.d >= b.n * a.d

validate_coord(c) ==
    IF Len(c) # 2 THEN "Err"
    ELSE IF Len(c[1]) # 2 \/ Len(c[2]) # 2 THEN "Err"
    ELSE IF BadNum \in {c[1][1], c[1][2], c[2][1], c[2][2]} THEN "Err"
    ELSE IF NGe(c[1][1], c[2][1]) \/ NGe(c[1][2], c[2][2]) THEN "Err"
    ELSE "Ok"

\* get_coord: ((x1, y1), (x2, y2))
get_coord(c) == [x1 |-> c[1][1], y1 |-> c[1][2], x2 |-> c[2][1], y2 |-> c[2][2]]

\* x as u32 for an x that is not finite: 0 for NaN, saturating
CastU32(x) ==
    CASE x.k = "pinf" -> U32Max
      [] OTHER -> U32(0)

\* r * h is 2^32 or more
Saturates(r, h) == r.n \div r.d >= 256 /\ h >= 16777216

\* (r * h) as u32 for a finite r whose product with h does not saturate: toward zero
FloorMul(r, h) ==
    IF r.n < 0 THEN 0 ELSE (r.n \div r.d) * h + ((r.n % r.d) * h) \div r.d

\* max(((x2 - x1) / (y2 - y1) * height as f64) as u32, 1)
calculate_width(v, h) ==
    LET r == NDiv(NSub(v.x2, v.x1), NSub(v.y2, v.y1))
        w == IF ~IsFin(r) THEN CastU32(NMul(r, Fin(h, 1)))
             ELSE IF Saturates(r, h) THEN U32Max
             ELSE U32(FloorMul(r, h))
    IN  IF w = U32Max THEN w ELSE IF w.v < 1 THEN U32(1) ELSE w

\* complex_by_coord((i, h), (j, w), (x1, y1), (x2, y2))
complex_by_coord(i, h, j, w, v) ==
    [re |-> NAdd(v.x1, NDiv(NMul(NSub(v.x2, v.x1), Fin(j, 1)), Fin(w, 1))),
     im |-> NAdd(v.y1, NDiv(NMul(NSub(v.y2, v.y1), Fin(i, 1)), Fin(h, 1)))]

InitView ==
    /\ coord = <<>> /\ cres = "none" /\ vwidth = <<>> /\ seed = <<>>
    /\ e = Arg /\ call = NoCall /\ result = NoTree
    /\ stack = <<>> /\ deriv = NoTree /\ ntok = 0
    /\ toks = <<>> /\ acc = <<>> /\ out = NoOut
    /\ rows = <<>> /\ rowOut = <<>> /\ registry = <<>> /\ sortAlgo = "head"
    /\ z = "fin" /\ d = 0 /\ fsmall = FALSE /\ firstSmall = -1 /\ found = "none" /\ npc = "idle"
    /\ height = 0 /\ width = 0 /\ colorize = FALSE /\ pixres = <<>> /\ rowBuf = <<>>
    /\ doneOrder = <<>> /\ image = <<>> /\ rpc = "idle"
    /\ gtree = <<>> /\ gcode = <<>>
    /\ parg = <<>> /\ ppal = <<>> /\ pin = <<>> /\ pout = <<>>

\* clap runs validate_coord on the argument
ValidateCoord ==
    /\ cres = "none"
    /\ \E c \in CoordStrings : coord' = c /\ cres' = validate_coord(c)
    /\ UNCHANGED <<vwidth, seed, notViewVars>>

\* newton: let width = calculate_width(..), on the viewport get_coord returns
CalculateWidth ==
    /\ cres = "Ok" /\ vwidth = <<>>
    /\ \E h \in Heights : vwidth' = [h |-> h, w |-> calculate_width(get_coord(coord), h)]
    /\ UNCHANGED <<coord, cres, seed, notViewVars>>

\* the rows whose seeds are computed: all of a small image, the first of a large one
SeedRows(h) == IF h <= MaxH THEN 0..(h - 1) ELSE {0}

\* newton: complex_by_coord((i, height), (j, width), ..) for a pixel of the first and
\* the last column
ComplexByCoord ==
    /\ vwidth # <<>> /\ vwidth.w # U32Max /\ seed = <<>>
    /\ \E i \in SeedRows(vwidth.h), j \in {0, vwidth.w.v - 1} :
        seed' = [i |-> i, j |-> j,
                 z |-> complex_by_coord(i, vwidth.h, j, vwidth.w.v, get_coord(coord))]
    /\ UNCHANGED <<coord, cres, vwidth, notViewVars>>

NextView == ValidateCoord \/ CalculateWidth \/ ComplexByCoord
SpecView == InitView /\ [][NextView]_vars

(***************************************************************************)
(* Code emission: Func::genc and Func::gen_inner (func.rs).  The emitted   *)
(* text is a sequence of pieces, one per character class: a punctuation    *)
(* character, a name, or the digits of a number ("num").  f64's and i32's  *)
(* Display write a negative value as the character '-' followed by the     *)
(* digits, and the non-finite values as the words NaN and inf.             *)
(***************************************************************************)
GenNums == {Zero, One, Fin(-1, 1), Half, NaN, PInf}
GenExps == {-1, 2}
GenOperands == {Arg, Im} \cup {Num(v) : v \in GenNums}

\* the trees the constructors make of the operands: one constructor, then a
\* second one with an operand on its right
GenLevel1 ==
    {add(l, r) : l \in GenOperands, r \in GenOperands}
        \cup {sub(l, r) : l \in GenOperands, r \in GenOperands}
        \cup {mul(l, r) : l \in GenOperands, r \in GenOperands}
        \cup {div(l, r) : l \in GenOperands, r \in GenOperands}
        \cup {powi(l, n) : l \in GenOperands, n \in GenExps}
        \cup {powc(l, Fin(3, 2)) : l \in GenOperands}
        \cup {sqrt(l) : l \in GenOperands} \cup {exp(l) : l \in GenOperands}
        \cup {ln(l) : l \in GenOperands} \cup {sin(l) : l \in GenOperands}
        \cup {cos(l) : l \in GenOperands} \cup {tan(l) : l \in GenOperands}

GenTrees ==
    GenLevel1
        \cup {add(l, r) : l \in GenLevel1, r \in GenOperands}
        \cup {sub(l, r) : l \in GenLevel1, r \in GenOperands}
        \cup {mul(l, r) : l \in GenLevel1, r \in GenOperands}
        \cup {div(l, r) : l \in GenLevel1, r \in GenOperands}

notGenVars ==
    <<algVars, parseVars, palVars, rootVars, newtonVars, renderVars, pixelVars, viewVars>>

\* <f64 as Display>::fmt, by what it writes first: a sign, digits, or a word
NumText(v) ==
    CASE v.k = "nan" -> <<"NaN">>
      [] v.k = "pinf" -> <<"inf">>
      [] v.k = "ninf" -> <<"-", "inf">>
      [] v.k = "fin" /\ v.n < 0 -> <<"-", "num">>
      [] OTHER -> <<"num">>

\* <i32 as Display>::fmt
IntText(n) == IF n < 0 THEN <<"-", "num">> ELSE <<"num">>

\* Func::gen_inner
RECURSIVE gen_inner(_)
gen_inner(self) ==
    LET t == Tag(self)
        a == self[2]
        b == self[3]
        Bin(op) == <<"(">> \o gen_inner(a) \o <<op>> \o gen_inner(b) \o <<")">>
        Call(f) == <<f, "(">> \o gen_inner(a) \o <<")">>
    IN  CASE t = "Arg" -> <<"x">>
          [] t = "Num" -> NumText(a)
          [] t = "Im" -> <<"I">>
          [] t = "Add" -> Bin("+")
          [] t = "Sub" -> Bin("-")
          [] t = "Mul" -> Bin("*")
          [] t = "Div" -> Bin("/")
          [] t = "PowI" -> <<"cpow", "(">> \o gen_inner(a) \o <<",">> \o IntText(b) \o <<")">>
          [] t = "PowC" -> <<"cpow", "(">> \o gen_inner(a) \o <<",">> \o NumText(b) \o <<")">>
          [] t = "Sqrt" -> Call("csqrt")
          [] t = "Exp" -> Call("cexp")
          [] t = "Ln" -> Call("clog")
          [] t = "Sin" -> Call("csin")
          [] t = "Cos" -> Call("ccos")
          [] t = "Tan" -> Call("ctan")

\* Func::genc: the body of the C function is "return <gen_inner>;"
genc(self) == <<"return">> \o gen_inner(self) \o <<";">>

InitGen ==
    /\ e = Arg /\ call = <<>> /\ result = <<>>
    /\ stack = <<>> /\ deriv = <<>> /\ ntok = 0
    /\ toks = <<>> /\ acc = <<>> /\ out = <<>>
    /\ rows = <<>> /\ rowOut = <<>> /\ registry = <<>> /\ sortAlgo = "head"
    /\ z = "fin" /\ d = 0 /\ fsmall = FALSE /\ firstSmall = 0 /\ found = <<>> /\ npc = "done"
    /\ height = 1 /\ width = 1 /\ colorize = FALSE /\ pixres = <<>> /\ rowBuf = <<>>
    /\ doneOrder = <<>> /\ image = <<>> /\ rpc = "idle"
    /\ parg = <<>> /\ ppal = <<>> /\ pin = <<>> /\ pout = <<>>
    /\ coord = <<>> /\ cres = "none" /\ vwidth = <<>> /\ seed = <<>>
    /\ gtree \in GenTrees /\ gcode = <<>>

\* genc on the function itself
GenFunc ==
    /\ gcode = <<>>
    /\ gcode' = genc(gtree)
    /\ UNCHANGED <<gtree, notGenVars>>

\* genc on its derivative
GenDiff ==
    /\ gcode = <<>>
    /\ gtree' = diff(gtree)
    /\ gcode' = genc(diff(gtree))
    /\ UNCHANGED notGenVars

NextGen == GenFunc \/ GenDiff
SpecGen == InitGen /\ [][NextGen]_vars

(***************************************************************************)
(* Claims on the algebra (SpecAlg).                                        *)
(***************************************************************************)
\* the formal derivative of a tree of the fragment at x, by the sum, product,
\* quotient, power and chain rules
RECURSIVE FormalDeriv(_, _)
FormalDeriv(t, x) ==
    LET tg == Tag(t)
        a == t[2]
        b == t[3]
    IN  CASE tg = "Arg" -> One
          [] tg = "Num" -> Zero
          [] tg = "Add" -> NAdd(FormalDeriv(a, x), FormalDeriv(b, x))
          [] tg = "Sub" -> NSub(FormalDeriv(a, x), FormalDeriv(b, x))
          [] tg = "Mul" -> NAdd(NMul(calc(a, x), FormalDeriv(b, x)),
                                NMul(FormalDeriv(a, x), calc(b, x)))
          [] tg = "Div" -> NDiv(NSub(NMul(FormalDeriv(a, x), calc(b, x)),
                                     NMul(calc(a, x), FormalDeriv(b, x))),
                                NMul(calc(b, x), calc(b, x)))
          [] tg = "PowI" -> NMul(NMul(Fin(b, 1), NPowi(calc(a, x), b - 1)),
                                 FormalDeriv(a, x))

FragmentTags == {"Arg", "Num", "Add", "Sub", "Mul", "Div", "PowI"}

RECURSIVE InFragment(_)
InFragment(t) ==
    /\ Tag(t) \in FragmentTags
    /\ Tag(t) \in BinaryTags => InFragment(t[2]) /\ InFragment(t[3])
    /\ Tag(t) = "PowI" => InFragment(t[2])

\* t and all its subterms have a finite value and a finite formal derivative at x
RECURSIVE Regular(_, _)
Regular(t, x) ==
    /\ IsFin(calc(t, x)) /\ IsFin(FormalDeriv(t, x))
    /\ Tag(t) \in BinaryTags => Regular(t[2], x) /\ Regular(t[3], x)
    /\ Tag(t) = "PowI" => Regular(t[2], x)

SamplePoints == {Fin(-1, 1), Zero, Half, Two}

\* C3 as stated: E+0, 0+E, E-0, 1*E, E*1 and E/1 return E, and 0*E, E*0 and 0/E
\* return Num(0), for every tree E.
C3_SmartIdentities ==
    /\ (call.fn = "add" /\ call.rhs = Num(Zero)) => result = call.lhs
    /\ (call.fn = "add" /\ call.lhs = Num(Zero)) => result = call.rhs
    /\ (call.fn = "sub" /\ call.rhs = Num(Zero)) => result = call.lhs
    /\ (call.fn = "mul" /\ call.lhs = Num(One)) => result = call.rhs
    /\ (call.fn = "mul" /\ call.rhs = Num(One)) => result = call.lhs
    /\ (call.fn = "div" /\ call.rhs = Num(One)) => result = call.lhs
    /\ (call.fn = "mul" /\ call.lhs = Num(Zero)) => result = Num(Zero)
    /\ (call.fn = "mul" /\ call.rhs = Num(Zero)) => result = Num(Zero)
    /\ (call.fn = "div" /\ call.lhs = Num(Zero)) => result = Num(Zero)

\* what 0*E, E*0 (op = "mul") and 0/E (op = "div") return: the folded constant when E
\* is a constant, which is NaN for 0*inf, 0*NaN, 0/0 and 0/NaN, and Num(0) otherwise
ZeroLaw(op, E) ==
    IF IsNum(E) /\ op = "mul" /\ ~IsFin(Val(E)) THEN Num(NaN)
    ELSE IF IsNum(E) /\ op = "div" /\ Val(E) \in {Zero, NaN} THEN Num(NaN)
    ELSE Num(Zero)

\* C3 (amended): E+0, 0+E, E-0, 1*E, E*1 and E/1 return exactly E for every tree E;
\* 0*E, E*0 and 0/E return Num(0) for every E that is not a constant, and for a
\* constant E the folded constant Num(0*c), Num(c*0), Num(0/c), which is Num(0)
\* unless c is infinite or NaN (0*c) or c is 0 or NaN (0/c), where it is Num(NaN).
C3_SmartIdentitiesAmended ==
    /\ (call.fn = "add" /\ call.rhs = Num(Zero)) => result = call.lhs
    /\ (call.fn = "add" /\ call.lhs = Num(Zero)) => result = call.rhs
    /\ (call.fn = "sub" /\ call.rhs = Num(Zero)) => result = call.lhs
    /\ (call.fn = "mul" /\ call.lhs = Num(One)) => result = call.rhs
    /\ (call.fn = "mul" /\ call.rhs = Num(One)) => result = call.lhs
    /\ (call.fn = "div" /\ call.rhs = Num(One)) => result = call.lhs
    /\ (call.fn = "mul" /\ call.lhs = Num(Zero)) => result = ZeroLaw("mul", call.rhs)
    /\ (call.fn = "mul" /\ call.rhs = Num(Zero)) => result = ZeroLaw("mul", call.lhs)
    /\ (call.fn = "div" /\ call.lhs = Num(Zero)) => result = ZeroLaw("div", call.rhs)

\* a product E*1 of a compound E came back as E itself
C3_Witness ==
    /\ call.fn = "mul" /\ call.rhs = Num(One)
    /\ Tag(call.lhs) = "Div" /\ result = call.lhs

\* C4: powi and powc return Num(1) for exponent 0 and E itself for exponent 1; powc
\* with exponent 1/2 returns Sqrt(E) for a non-constant E.
C4_PowerConstructors ==
    /\ (call.fn = "powi" /\ call.n = 0) => result = Num(One)
    /\ (call.fn = "powi" /\ call.n = 1) => result = call.lhs
    /\ (call.fn = "powc" /\ call.x = Zero) => result = Num(One)
    /\ (call.fn = "powc" /\ call.x = One) => result = call.lhs
    /\ (call.fn = "powc" /\ call.x = Half /\ ~IsNum(call.lhs)) => result = Sqrt(call.lhs)

\* C5: on a tree of the fragment Arg, Num, Add, Sub, Mul, Div, PowI(e, n), the value
\* of diff(tree) equals the formal derivative at every sample point where the tree,
\* its subterms and their formal derivatives are finite.
C5_DiffCorrect ==
    (call.fn = "diff" /\ InFragment(call.lhs)) =>
        \A x \in SamplePoints :
            Regular(call.lhs, x) => calc(result, x) = FormalDeriv(call.lhs, x)

(***************************************************************************)
(* Claims on the parser (SpecParse).                                       *)
(***************************************************************************)
\* the normalization law at the root of a tree
NormalNode(t) ==
    LET tg == Tag(t)
    IN  /\ tg \in BinaryTags => ~(IsNum(t[2]) /\ IsNum(t[3]))
        /\ tg = "Add" => t[2] # Num(Zero) /\ t[3] # Num(Zero)
        /\ tg = "Sub" => t[3] # Num(Zero)
        /\ tg = "Mul" => t[2] \notin {Num(Zero), Num(One)} /\ t[3] \notin {Num(Zero), Num(One)}
        /\ tg = "Div" => t[2] # Num(Zero) /\ t[3] # Num(One)
        /\ tg \in ElemTags => ~IsNum(t[2])

RECURSIVE Normalized(_)
Normalized(t) ==
    /\ NormalNode(t)
    /\ Tag(t) \in BinaryTags => Normalized(t[2]) /\ Normalized(t[3])
    /\ Tag(t) \in ElemTags \cup {"PowI", "PowC"} => Normalized(t[2])

\* C6: every tree eval_func returns, and its derivative, is normalized.
C6_Normalization ==
    /\ \A i \in DOMAIN stack : Normalized(stack[i])
    /\ deriv # NoTree => Normalized(deriv)

(***************************************************************************)
(* Claims on the palette (SpecPalette).                                    *)
(***************************************************************************)
\* round(a / b) for a >= 0 and b > 0
RoundDiv(a, b) == (2 * a + b) \div (2 * b)

\* the number of colours, hidden or not, the tokens put into the palette
RECURSIVE ColsCount(_)
ColsCount(ts) ==
    IF ts = <<>> THEN 0
    ELSE LET t == ts[Len(ts)]
         IN  ColsCount(Pop(ts)) + (IF t.sep = "default" THEN 0 ELSE 1 + t.k)

\* C7: a full separator with k inserts exactly k colours between the two palettes,
\* and each channel of the i-th is round(left*(k-i+1)/(k+1) + right*i/(k+1)).
C7_FullSeparatorRounds ==
    (toks # <<>> /\ toks[Len(toks)].sep = "full") =>
        LET k == toks[Len(toks)].k
            n == Len(acc.cols)
            left == acc.cols[n - k - 1].c
            right == acc.cols[n].c
        IN  /\ n = ColsCount(toks)
            /\ \A i \in 1..k, ch \in 1..3 :
                  acc.cols[n - k - 1 + i].c[ch]
                      = RoundDiv(left[ch] * (k - i + 1) + right[ch] * i, k + 1)

\* the tokens that are right operands of "|>"
DefaultToks(ts) == SelectSeq(ts, LAMBDA t : t.sep = "default")

\* the table the tokens ask for, read from left to right: every colour that is not
\* hidden, and the k colours of every full separator between the colour before it
\* and the colour after it (hidden or not); withDefault says whether the right
\* operand of "|>" counts as a colour of the table
RECURSIVE TableOf(_, _)
TableOf(ts, withDefault) ==
    IF ts = <<>> THEN [tab |-> <<>>, anchor |-> Black]
    ELSE LET t == ts[Len(ts)]
             before == TableOf(Pop(ts), withDefault)
             own == IF t.h THEN <<>> ELSE <<t.c>>
         IN  CASE t.sep = "default" ->
                    [tab |-> before.tab \o (IF withDefault THEN own ELSE <<>>),
                     anchor |-> before.anchor]
               [] t.sep = "full" ->
                    [tab |-> before.tab
                             \o [i \in 1..t.k |-> InterpColor(t.c, before.anchor, i, t.k)]
                             \o own,
                     anchor |-> t.c]
               [] OTHER -> [tab |-> before.tab \o own, anchor |-> t.c]

\* C8: with a "|>" in the expression the default is the colour right of it, and that
\* colour is not in the table, whatever other separators appear; without one the
\* default is black.
C8_DefaultSeparator ==
    out.done =>
        LET defs == DefaultToks(toks)
        IN  /\ defs # <<>> => out.def = defs[Len(defs)].c
            /\ defs = <<>> => out.def = Black
            /\ Len(out.table) = Len(TableOf(toks, FALSE).tab)

\* C9 as stated: no hidden colour is in the table, every colour that is not hidden
\* and every interpolated colour is, in the order of the expression.
C9_HiddenColors == out.done => out.table = TableOf(toks, TRUE).tab

\* C9 (amended): a hidden colour anchors the gradient of a full separator next to it
\* and is not in the table; every colour that is not hidden and is not the right
\* operand of a "|>", and every interpolated colour, is in the table, in the order
\* of the expression.
C9_HiddenColorsAmended == out.done => out.table = TableOf(toks, FALSE).tab

\* a hidden colour anchored a gradient on each side and the table holds the
\* gradient without it
C9_Witness ==
    /\ out.done /\ Len(toks) = 3
    /\ toks[2].h /\ toks[2].sep = "full" /\ toks[3].sep = "full"
    /\ ~toks[1].h /\ ~toks[3].h
    /\ Len(out.table) = 2 + toks[2].k + toks[3].k
    /\ out.table[2] \notin {toks[1].c, toks[3].c}

(***************************************************************************)
(* Claims on the root registry (SpecRoots).                                *)
(***************************************************************************)
Deduplicated(v) == \A i, j \in DOMAIN v : i # j => ~Near(v[i], v[j])

\* C2: no two entries of what uniq_vec returns, for a row and for the registry of
\* find_roots, are closer than ROOT_PRECISION, adjacent or not.
C2_Deduplicated ==
    /\ \A i \in DOMAIN rowOut : rowOut[i] # NoRow => Deduplicated(rowOut[i])
    /\ registry # NoRow => Deduplicated(registry)

(***************************************************************************)
(* Claims on the Newton iteration (SpecNewton).                            *)
(***************************************************************************)
\* the step count and the result of find_root: at most ROOT_ITER updates, Some at the
\* first small step, None exactly when no step up to ROOT_ITER is small
C10_StepCount ==
    /\ d \in 0..ROOT_ITER
    /\ npc = "done" =>
        /\ found = "Some" => fsmall /\ firstSmall = d
        /\ found = "None" <=> firstSmall = -1
        /\ found = "None" => d = ROOT_ITER

\* C10: find_root makes at most ROOT_ITER updates, returns n in 0..ROOT_ITER, Some(z_n) at
\* the smallest n with |f(z_n)| < PRECISION, None exactly when there is none, and None
\* whenever a point of the iteration is NaN or infinite.
C10_FindRoot ==
    /\ C10_StepCount
    /\ npc = "done" /\ z # "fin" => found = "None"

(***************************************************************************)
(* Claims on the render kernel (SpecRender).                               *)
(***************************************************************************)
\* C1: whatever the order in which the rows are completed, the buffer newton returns has
\* 3*W*H bytes and bytes 3*(i*W+j) .. 3*(i*W+j)+2 are the colour of pixel (i, j).
C1_RowMajor ==
    rpc = "done" =>
        /\ Len(image) = 3 * width * height
        /\ \A i \in 0..(height - 1), j \in 0..(width - 1) :
            SubSeq(image, 3 * (i * width + j) + 1, 3 * (i * width + j) + 3)
                = find_newton(pixres[i + 1][j + 1], colorize, RenderPalette)

\* rows completed out of index order, with two rows that differ, and the buffer collected
C1_Witness ==
    /\ rpc = "done" /\ height >= 2
    /\ \E m, n \in DOMAIN doneOrder : m < n /\ doneOrder[m] > doneOrder[n]
    /\ \E i, k \in 1..height : rowBuf[i] # rowBuf[k]

(***************************************************************************)
(* Claims on find_newton (SpecPixel).                                      *)
(***************************************************************************)
\* 255 * (1 - min(1, n / ROOT_ITER * CONTRAST)), times ROOT_ITER
GrayTimesIter(n) == 255 * (ROOT_ITER - Min(ROOT_ITER, n * CONTRAST))

\* the grey level find_newton gives a pixel that converges after n steps
GrayOf(n) ==
    find_newton([root |-> "Some", idx |-> -1, dep |-> n], FALSE, DefaultPalette)[1]

\* C11: without a palette a pixel converging after n steps gets three equal channels
\* within 1 of 255*(1 - min(1, n/ROOT_ITER*CONTRAST)), 255 at n = 0, non-increasing in n,
\* 0 from n = ROOT_ITER/CONTRAST on; a pixel that does not converge is (0,0,0).
C11_Grayscale ==
    (pin # <<>> /\ ~pin.col) =>
        /\ pin.root = "None" => pout = <<0, 0, 0>>
        /\ pin.root = "Some" =>
            /\ pout[1] = pout[2] /\ pout[2] = pout[3] /\ pout[1] \in 0..255
            /\ Abs(pout[1] * ROOT_ITER - GrayTimesIter(pin.dep)) <= ROOT_ITER
            /\ pin.dep = 0 => pout[1] = 255
            /\ pin.dep * CONTRAST >= ROOT_ITER => pout[1] = 0
            /\ pin.dep > 0 => pout[1] <= GrayOf(pin.dep - 1)

\* a converging pixel strictly between white and black
C11_Witness ==
    /\ pin # <<>> /\ ~pin.col /\ pin.root = "Some"
    /\ pin.dep = 3 /\ pout = <<244, 244, 244>>

\* C12: with a palette a converging pixel takes palette[index mod N], index the lowest
\* registry index within ROOT_PRECISION of the endpoint and N the number of colours
\* before the default; without a match it takes the default colour; N > 0 and the table
\* index is in bounds.
C12_PaletteIndex ==
    (pin # <<>> /\ pin.col /\ pin.root = "Some") =>
        LET N == Len(ppal) - 1
            hits == {i \in DOMAIN pin.roots : Near(pin.roots[i], pin.pt)}
        IN  /\ N > 0
            /\ hits = {} => pout = ppal[N + 1]
            /\ hits # {} =>
                \E i \in hits :
                    /\ \A k \in hits : i <= k
                    /\ ((i - 1) % N) + 1 \in DOMAIN ppal
                    /\ pout = ppal[((i - 1) % N) + 1]

\* the endpoint is near the second root of the registry only, and the index wraps
C12_Witness ==
    /\ pin # <<>> /\ pin.col /\ pin.root = "Some"
    /\ Len(pin.roots) = 2 /\ pin.idx = 1 /\ Len(ppal) = 2
    /\ pout = ppal[1] /\ pout # <<0, 0, 0>>

\* C18: an argument its validator accepts is converted without a panic: get_palette of
\* main.rs builds a palette from every validated --palette and --gradient, a gradient of
\* length 1 included.
C18_NoPanic ==
    (parg # <<>> /\ parg.valid /\ ppal # NoPal) => ppal # Panic

(***************************************************************************)
(* Claims on the viewport (SpecView).                                      *)
(***************************************************************************)
\* a < b on numbers: false when either is NaN
NLt(a, b) == a.k # "nan" /\ b.k # "nan" /\ a # b /\ NGe(b, a)

\* x1,y1;x2,y2 with four numbers
CoordForm(c) ==
    /\ Len(c) = 2 /\ Len(c[1]) = 2 /\ Len(c[2]) = 2
    /\ BadNum \notin {c[1][1], c[1][2], c[2][1], c[2][2]}

\* C13: validate_coord returns Ok exactly for x1,y1;x2,y2 with x1 < x2 and y1 < y2; any
\* other string, one with an unordered value such as NaN included, returns Err.
C13_ValidateCoord ==
    cres # "none" =>
        (cres = "Ok" <=>
            /\ CoordForm(coord)
            /\ NLt(coord[1][1], coord[2][1]) /\ NLt(coord[1][2], coord[2][2]))

\* the viewport is x1 < x2, y1 < y2, as the claims on the width take it
Ordered(c) == NLt(c[1][1], c[2][1]) /\ NLt(c[1][2], c[2][2])

\* C14: for x1 < x2, y1 < y2 and H > 0, calculate_width returns
\* max(floor((x2-x1)/(y2-y1)*H), 1), which is >= 1, and the seed of pixel (i, j) has
\* re = x1 + (x2-x1)*j/W with that width W.
C14_Width ==
    (vwidth # <<>> /\ Ordered(coord)) =>
        LET v == get_coord(coord)
            r == NDiv(NSub(v.x2, v.x1), NSub(v.y2, v.y1))
        IN  /\ vwidth.w.k = "val"
            /\ IsFin(r)
            /\ vwidth.w.v = (IF FloorMul(r, vwidth.h) < 1 THEN 1 ELSE FloorMul(r, vwidth.h))
            /\ vwidth.w.v >= 1
            /\ seed # <<>> =>
                seed.z.re = NAdd(v.x1, NDiv(NMul(NSub(v.x2, v.x1), Fin(seed.j, 1)),
                                           Fin(vwidth.w.v, 1)))

(***************************************************************************)
(* Claims about code emission.                                             *)
(***************************************************************************)
At(ts, i) == IF i \in DOMAIN ts THEN ts[i] ELSE "eof"

\* translation phase 3 of C: the longest run of characters that can make a
\* token makes one, so two adjacent '-' are the token "--"
RECURSIVE Lex(_)
Lex(cs) ==
    IF cs = <<>> THEN <<>>
    ELSE IF Len(cs) >= 2 /\ cs[1] = "-" /\ cs[2] = "-"
         THEN <<"--">> \o Lex(SubSeq(cs, 3, Len(cs)))
    ELSE <<cs[1]>> \o Lex(Tail(cs))

ElemNames == {"csqrt", "cexp", "clog", "csin", "ccos", "ctan"}

\* a numeric literal, or one under a unary minus: the index after it, 0 if none
ParseLit(ts, i) ==
    IF At(ts, i) = "num" THEN i + 1
    ELSE IF At(ts, i) = "-" /\ At(ts, i + 1) = "num" THEN i + 2
    ELSE 0

\* the index after the expression of the claimed form that starts at ts[i],
\* 0 if none starts there
RECURSIVE ParseE(_, _)
ParseE(ts, i) ==
    LET t == At(ts, i)
    IN  CASE t \in {"x", "I"} -> i + 1
          [] t \in {"num", "-"} -> ParseLit(ts, i)
          [] t = "(" ->
                LET j == ParseE(ts, i + 1)
                IN  IF j = 0 \/ At(ts, j) \notin {"+", "-", "*", "/"} THEN 0
                    ELSE LET k == ParseE(ts, j + 1)
                         IN  IF k = 0 \/ At(ts, k) # ")" THEN 0 ELSE k + 1
          [] t = "cpow" ->
                IF At(ts, i + 1) # "(" THEN 0
                ELSE LET j == ParseE(ts, i + 2)
                     IN  IF j = 0 \/ At(ts, j) # "," THEN 0
                         ELSE LET k == ParseLit(ts, j + 1)
                              IN  IF k = 0 \/ At(ts, k) # ")" THEN 0 ELSE k + 1
          [] t \in ElemNames ->
                IF At(ts, i + 1) # "(" THEN 0
                ELSE LET j == ParseE(ts, i + 2)
                     IN  IF j = 0 \/ At(ts, j) # ")" THEN 0 ELSE j + 1
          [] OTHER -> 0

\* "return <expression of the claimed form>;"
ValidC(cs) ==
    LET ts == Lex(cs)
    IN  /\ Len(ts) >= 3
        /\ ts[1] = "return"
        /\ ts[Len(ts)] = ";"
        /\ ParseE(ts, 2) = Len(ts)

\* C17: whatever tree is given, the emitted text is a valid C expression made
\* of x, I, numeric literals, parenthesised binary operators, cpow and the six
\* elementary calls, negative constants on the right of an operator included.
C17_ValidEmission == gcode # <<>> => ValidC(gcode)

(***************************************************************************)
(* Claims on the order and the coverage of the registry (SpecRoots).       *)
(***************************************************************************)
\* the order "primary p, secondary q" with the tolerance ROOT_PRECISION
LexCmp(ap, aq, bp, bq) ==
    IF Abs(ap - bp) >= ROOT_PRECISION THEN PartialCmp(ap, bp)
    ELSE IF Abs(aq - bq) >= ROOT_PRECISION THEN PartialCmp(aq, bq)
    ELSE "Equal"

SortedByReal(v) ==
    \A i \in 1..(Len(v) - 1) :
        LexCmp(v[i].re, v[i].im, v[i + 1].re, v[i + 1].im) # "Greater"

\* C15: what uniq_vec returns, for a row and for the registry of find_roots, is
\* in ascending order of the real part, the imaginary part deciding between
\* real parts closer than ROOT_PRECISION.
C15_RegistryOrder ==
    /\ \A i \in DOMAIN rowOut : rowOut[i] # NoRow => SortedByReal(rowOut[i])
    /\ registry # NoRow => SortedByReal(registry)

SortedPoints ==
    UNION {{rows[i][k] : k \in DOMAIN rows[i]} : i \in {j \in DOMAIN rows : rowOut[j] # NoRow}}

\* C16: on any two points of a sorted row the closure of sort_float answers as
\* the order "primary real, secondary imaginary" does, and the closure of
\* sort_float_rev as the order "primary imaginary, secondary real" does.
C16_Comparator ==
    \A a \in SortedPoints, b \in SortedPoints :
        /\ sort_float_cmp(a, b) = LexCmp(a.re, a.im, b.re, b.im)
        /\ sort_float_rev_cmp(a, b) = LexCmp(a.im, a.re, b.im, b.re)

Covers(w, v) == \A i \in DOMAIN v : \E j \in DOMAIN w : Near(v[i], w[j])

\* C19: every point given to uniq_vec, the points of a row and the flattened
\* row outputs alike, is closer than ROOT_PRECISION to a point of its result.
C19_Coverage ==
    /\ \A i \in DOMAIN rowOut : rowOut[i] # NoRow => Covers(rowOut[i], rows[i])
    /\ registry # NoRow => Covers(registry, Flatten(rowOut))

=============================================================================
